---- MODULE Spec2Model ----
(***************************************************************************)
(* build-progress: a wrapper that runs a command and estimates progress by *)
(* matching the command's output lines against the trace recorded by an    *)
(* earlier run.  The model follows src/src/diff.rs (Writer, OrigOutput,    *)
(* CurrOutput), src/src/util.rs (open_or_create), src/src/cmd.rs (run,     *)
(* spawn), src/src/main.rs (the exit code) and src/src/output.rs (the      *)
(* command side file).                                                     *)
(*                                                                         *)
(* Line contents are drawn from Lines; the empty string stands for the     *)
(* empty byte vector (Vec::new()).  Durations are natural numbers of clock *)
(* ticks.  Sequence indices (seq) are 0-based as in the code, so the       *)
(* historical line with index seq is lines[seq + 1].                       *)
(***************************************************************************)
EXTENDS Naturals, Sequences, FiniteSets

VARIABLES
    file,      \* contents of the trace file orig.json
    holders,   \* the processes holding the exclusive lock on the trace file
    now,       \* the monotonic clock (Instant::now)
    pc,        \* pc[p]: where process p is in cmd::run
    entry,     \* entry[p]: the FileEntry returned by open_or_create
    orig,      \* orig[p]: diff::Writer.orig
    curr,      \* curr[p]: diff::Writer.curr
    fed,       \* fed[p]: the lines passed to Writer::write_line so far
    child,     \* child[p]: the child process, "none", "running" or "exited"
    status,    \* status[p]: the child's exit status was success
    progress,  \* progress[p]: the progress bar of the process-wide logger
    overlap,   \* history: two runs have been alive at the same moment
    output,    \* contents of the output log, the lines written by write_output
    eof,       \* eof[p]: which of the child's pipes have reached end-of-stream
    code,      \* code[p]: the ExitStatus the child's future resolved to
    exit,      \* exit[p]: the code the wrapper passed to process::exit
    cmdFile,   \* contents of the command side file command.toml
    warned     \* warned[p]: check_cmd failed and the error was logged

vars == <<file, holders, now, pc, entry, orig, curr, fed, child, status, progress, overlap,
          output, eof, code, exit, cmdFile, warned>>

----------------------------------------------------------------------------
(* Bounds *)

MaxTime == 2       \* the clock stops ticking here
MaxLive == 3       \* lines one child writes in the single-run specification
MaxHist == 3       \* lines of the stored trace in the initial states
MaxLockLive == 1   \* lines one child writes in the two-process specification
MaxLockErr == 1    \* lines one child writes to stderr in that specification

Lines == {"a", "b", "c"}
LockLines == {"a"}

Procs == {"p1", "p2"}
P1 == "p1"

----------------------------------------------------------------------------
(* Data: Line, OutputData and their JSON form *)

EmptyData == [lines |-> <<>>, total |-> 0]

\* base64::encode of a line's content.
Base64Encode(bytes) ==
    CASE bytes = "a" -> "YQ=="
      [] bytes = "b" -> "Yg=="
      [] bytes = "c" -> "Yw=="
      [] OTHER -> ""

\* base64::decode, the inverse on the encoder's range.
Base64Decode(string) ==
    CASE string = "YQ==" -> "a"
      [] string = "Yg==" -> "b"
      [] string = "Yw==" -> "c"
      [] OTHER -> ""

\* json::to_writer(file, &data): contents are written base64-encoded.
ToWriter(data) ==
    [kind |-> "json",
     data |-> [lines |-> [i \in DOMAIN data.lines |->
                            [data |-> Base64Encode(data.lines[i].data),
                             dur |-> data.lines[i].dur]],
               total |-> data.total]]

\* json::from_reader succeeds only on a complete JSON document.
CanRead(f) == f.kind = "json"

\* json::from_reader(BufReader::new(file)): the decoded OutputData.
FromReader(f) ==
    [lines |-> [i \in DOMAIN f.data.lines |->
                  [data |-> Base64Decode(f.data.lines[i].data),
                   dur |-> f.data.lines[i].dur]],
     total |-> f.data.total]

EmptyFile == [kind |-> "empty", data |-> EmptyData]
CorruptFile == [kind |-> "corrupt", data |-> EmptyData]

\* File::metadata().len()
FileLen(f) == IF f.kind = "empty" THEN 0 ELSE 1

----------------------------------------------------------------------------
(* OrigOutput: the stored trace and the match cursor *)

NoOrig ==
    [some |-> FALSE, data |-> EmptyData, map |-> [l \in {} |-> 0],
     seq |-> 0, elapsed |-> 0]

Contents(lines) == {lines[i].data : i \in DOMAIN lines}

\* The HashMap collected from (content, seq) pairs: a later pair replaces an
\* earlier one with the same key.
CollectMap(lines) ==
    [l \in Contents(lines) |->
        (CHOOSE i \in DOMAIN lines :
            /\ lines[i].data = l
            /\ \A j \in DOMAIN lines : lines[j].data = l => j <= i) - 1]

\* OrigOutput::new on FileEntry::Existing: every line's content is moved into
\* the map, leaving an empty vector behind.
OrigNew(f) ==
    LET data == FromReader(f) IN
    [some |-> TRUE,
     data |-> [lines |-> [i \in DOMAIN data.lines |->
                            [data |-> "", dur |-> data.lines[i].dur]],
               total |-> data.total],
     map |-> CollectMap(data.lines),
     seq |-> 0,
     elapsed |-> 0]

\* A variant of write_line that counts every live line, found or not.
OrigWriteLineCountsAll(o, line) ==
    IF line \in DOMAIN o.map
    THEN LET seq == o.map[line] IN
         [o EXCEPT !.elapsed = IF o.seq <= seq THEN o.data.lines[seq + 1].dur ELSE @,
                   !.seq = @ + 1]
    ELSE [o EXCEPT !.seq = @ + 1]

\* A variant of write_line that recognizes a line only strictly ahead.
OrigWriteLineStrict(o, line) ==
    IF line \in DOMAIN o.map
    THEN LET seq == o.map[line] IN
         [o EXCEPT !.elapsed = IF o.seq < seq THEN o.data.lines[seq + 1].dur ELSE @,
                   !.seq = @ + 1]
    ELSE o

\* OrigOutput::write_line
OrigWriteLine(o, line) ==
    IF line \in DOMAIN o.map
    THEN LET seq == o.map[line] IN
         [o EXCEPT !.elapsed = IF o.seq <= seq THEN o.data.lines[seq + 1].dur ELSE @,
                   !.seq = @ + 1]
    ELSE o

----------------------------------------------------------------------------
(* CurrOutput: the recorder of the current run *)

\* CurrOutput::new
CurrNew(t) == [data |-> EmptyData, map |-> [l \in {} |-> 0], start |-> t]

\* A variant of write_line that leaves an entry seen again unmarked.
CurrWriteLineKeepsFirst(c, line, t) ==
    IF line \in DOMAIN c.map
    THEN c
    ELSE [c EXCEPT
            !.data.lines = Append(@, [data |-> "", dur |-> t - c.start]),
            !.map = [l \in DOMAIN c.map \cup {line} |->
                        IF l = line THEN [seq |-> Len(c.data.lines), dup |-> FALSE]
                        ELSE c.map[l]]]

\* A variant of write_line that stores the time since the previous new line.
CurrWriteLineSincePrevious(c, line, t) ==
    LET RECURSIVE Sum(_)
        Sum(lines) == IF lines = <<>> THEN 0 ELSE Head(lines).dur + Sum(Tail(lines))
    IN  IF line \in DOMAIN c.map
        THEN [c EXCEPT !.map[line].dup = TRUE]
        ELSE [c EXCEPT
                !.data.lines = Append(@, [data |-> "",
                                          dur |-> (t - c.start) - Sum(c.data.lines)]),
                !.map = [l \in DOMAIN c.map \cup {line} |->
                            IF l = line THEN [seq |-> Len(c.data.lines), dup |-> FALSE]
                            ELSE c.map[l]]]

\* A variant of write_line that gives a content seen again a new entry.
CurrWriteLineReslots(c, line, t) ==
    [c EXCEPT
       !.data.lines = Append(@, [data |-> "", dur |-> t - c.start]),
       !.map = [l \in DOMAIN c.map \cup {line} |->
                   IF l = line
                   THEN [seq |-> Len(c.data.lines), dup |-> line \in DOMAIN c.map]
                   ELSE c.map[l]]]

\* CurrOutput::write_line at clock value t
CurrWriteLine(c, line, t) ==
    LET dur == t - c.start
        seq == Len(c.data.lines)
    IN  IF line \in DOMAIN c.map
        THEN [c EXCEPT !.map[line].dup = TRUE]
        ELSE [c EXCEPT
                !.data.lines = Append(@, [data |-> "", dur |-> dur]),
                !.map = [l \in DOMAIN c.map \cup {line} |->
                            IF l = line THEN [seq |-> seq, dup |-> FALSE]
                            ELSE c.map[l]]]

RECURSIVE Retain(_)
\* Vec::retain(|line| !line.data.is_empty())
Retain(lines) ==
    IF lines = <<>> THEN <<>>
    ELSE IF Head(lines).data = "" THEN Retain(Tail(lines))
         ELSE <<Head(lines)>> \o Retain(Tail(lines))

\* CurrOutput::finish at clock value t: the OutputData handed to to_writer.
CurrFinish(c, t) ==
    LET filled == [i \in DOMAIN c.data.lines |->
                     IF \E l \in DOMAIN c.map : c.map[l].seq = i - 1 /\ ~c.map[l].dup
                     THEN [data |-> CHOOSE l \in DOMAIN c.map : c.map[l].seq = i - 1,
                           dur |-> c.data.lines[i].dur]
                     ELSE c.data.lines[i]]
    IN  [lines |-> Retain(filled), total |-> t - c.start]

----------------------------------------------------------------------------
(* diff::Writer *)

\* Writer::len: the progress length, when a trace was loaded.
WriterLen(o) == IF o.some THEN o.data.total ELSE 0

\* Writer::completed
Completed(o) == IF o.some THEN o.elapsed ELSE 0

\* Writer::write_line, the orig half
WriterWriteOrig(o, line) == IF o.some THEN OrigWriteLine(o, line) ELSE o

\* A variant of finish that saves after every run.
ShouldSaveAlways(success, o) == TRUE

\* A variant of finish that saves after a successful run only.
ShouldSaveOnSuccess(success, o) == success

\* Writer::finish: the condition under which the trace file is rewritten.
ShouldSave(success, o) == success \/ ~o.some

----------------------------------------------------------------------------
(* The command side file of output::Writer *)

CurrCmd == "build"
OtherCmd == "other"

\* toml::to_string_pretty of a command.
TomlOf(cmd) == [kind |-> "toml", cmd |-> cmd]

\* toml::from_str succeeds on a TOML document of a command only.
CanParse(f) == f.kind = "toml"

\* toml::from_str: the command read back.
FromToml(f) == f.cmd

NoCmdFile == [kind |-> "empty", cmd |-> ""]
GarbageCmdFile == [kind |-> "garbage", cmd |-> ""]

----------------------------------------------------------------------------
(* One run: cmd::run, with diff::Writer::new and Writer::finish inlined *)

NoProgress == [started |-> FALSE, len |-> 0, pos |-> 0]

\* ExitStatus: the child returned a code, or was ended by a signal and has none.
Exited(n) == [some |-> TRUE, value |-> n]
Killed == [some |-> FALSE, value |-> 0]

\* ExitStatus::success
Success(st) == st.some /\ st.value = 0

\* main: the exit code when run returns an error.
ErrorExit == 17

\* run: the exit code when the child has none.
DefaultExit == 1

\* A variant of run's result that tells success from failure only.
RunExitCodeFlat(st) == IF Success(st) THEN 0 ELSE DefaultExit

\* run: Ok(status.code().unwrap_or(1))
RunExitCode(st) == IF st.some THEN st.value ELSE DefaultExit

NoEof == [stdout |-> FALSE, stderr |-> FALSE]

\* A run that has ended: by returning (done), by an error (busy, corrupt, failed) or by
\* the process being killed (crashed).
Ended == {"busy", "corrupt", "failed", "crashed", "done"}

\* A run between taking the lock and the end of cmd::run.
Critical == {"locked", "ready", "running", "exited", "truncated", "finished"}

Alive(p) == pc[p] \notin {"start"} \cup Ended

\* A variant of the command check whose error ends the run.
CheckCmdFatal(p, ioOk) ==
    /\ pc[p] = "new"
    /\ IF cmdFile.kind = "empty"
       THEN /\ cmdFile' = IF ioOk THEN TomlOf(CurrCmd) ELSE cmdFile
            /\ warned' = warned
            /\ pc' = [pc EXCEPT ![p] = IF ioOk THEN "checked" ELSE "failed"]
            /\ exit' = [exit EXCEPT ![p] = IF ioOk THEN @ ELSE ErrorExit]
       ELSE LET same == ioOk /\ CanParse(cmdFile) /\ FromToml(cmdFile) = CurrCmd IN
            /\ cmdFile' = cmdFile
            /\ warned' = warned
            /\ pc' = [pc EXCEPT ![p] = IF same THEN "checked" ELSE "failed"]
            /\ exit' = [exit EXCEPT ![p] = IF same THEN @ ELSE ErrorExit]
    /\ UNCHANGED <<file, holders, now, entry, orig, curr, fed, child, status, progress,
                   overlap, output, eof, code>>

\* output::Writer::new, the command side file: open_or_create classifies it by
\* its length; check_cmd compares an existing file with the current command
\* and fills a new one; an error of check_cmd (reading, parsing, a different
\* command, writing) is logged as a warning and the run goes on.  ioOk tells
\* whether the read or write succeeds.
CheckCmd(p, ioOk) ==
    /\ pc[p] = "new"
    /\ IF cmdFile.kind = "empty"
       THEN /\ cmdFile' = IF ioOk THEN TomlOf(CurrCmd) ELSE cmdFile
            /\ warned' = [warned EXCEPT ![p] = ~ioOk]
       ELSE /\ cmdFile' = cmdFile
            /\ warned' = [warned EXCEPT ![p] =
                             ~(ioOk /\ CanParse(cmdFile) /\ FromToml(cmdFile) = CurrCmd)]
    /\ pc' = [pc EXCEPT ![p] = "checked"]
    /\ UNCHANGED <<file, holders, now, entry, orig, curr, fed, child, status, progress,
                   overlap, output, eof, code, exit>>

\* output::Writer::new, File::create of the output log: the log is created, or
\* truncated when it exists, before diff::Writer::new opens and locks the
\* trace; an error here ends the run.
CreateOutput(p, ioOk) ==
    /\ pc[p] = "checked"
    /\ output' = IF ioOk THEN <<>> ELSE output
    /\ pc' = [pc EXCEPT ![p] = IF ioOk THEN "start" ELSE "failed"]
    /\ exit' = [exit EXCEPT ![p] = IF ioOk THEN @ ELSE ErrorExit]
    /\ UNCHANGED <<file, holders, now, entry, orig, curr, fed, child, status, progress,
                   overlap, eof, code, cmdFile, warned>>

\* util::open_or_create: the file is opened (created empty when absent) and
\* classified by its length, before any lock is taken.
OpenOrCreate(p) ==
    /\ pc[p] = "start"
    /\ entry' = [entry EXCEPT ![p] = IF FileLen(file) = 0 THEN "New" ELSE "Existing"]
    /\ pc' = [pc EXCEPT ![p] = "opened"]
    /\ overlap' = (overlap \/ \E q \in Procs \ {p} : Alive(q))
    /\ UNCHANGED <<file, holders, now, orig, curr, fed, child, status, progress, output, eof, code, exit, cmdFile, warned>>

\* A variant of the lock step that takes the lock without looking at it.
TryLockUnchecked(p) ==
    /\ pc[p] = "opened"
    /\ holders' = holders \cup {p}
    /\ pc' = [pc EXCEPT ![p] = "locked"]
    /\ UNCHANGED <<file, now, entry, orig, curr, fed, child, status, progress, overlap, output, eof, code, exit, cmdFile, warned>>

\* A variant of the lock step that opens the file again when the lock is held.
TryLockRetry(p) ==
    /\ pc[p] = "opened"
    /\ IF holders = {}
       THEN /\ holders' = holders \cup {p}
            /\ pc' = [pc EXCEPT ![p] = "locked"]
       ELSE /\ holders' = holders
            /\ pc' = [pc EXCEPT ![p] = "start"]
    /\ UNCHANGED <<file, now, entry, orig, curr, fed, child, status, progress, overlap, output, eof, code, exit, cmdFile, warned>>

\* Writer::new, try_lock_exclusive: the lock is granted only when nobody holds
\* it; a contended lock is an error returned at once.
TryLock(p) ==
    /\ pc[p] = "opened"
    /\ IF holders = {}
       THEN /\ holders' = holders \cup {p}
            /\ pc' = [pc EXCEPT ![p] = "locked"]
            /\ exit' = exit
       ELSE /\ holders' = holders
            /\ pc' = [pc EXCEPT ![p] = "busy"]
            /\ exit' = [exit EXCEPT ![p] = ErrorExit]
    /\ UNCHANGED <<file, now, entry, orig, curr, fed, child, status, progress, overlap, output, eof, code, cmdFile, warned>>

\* A variant of Writer::new that takes an unreadable trace for no trace.
WriterNewLenient(p) ==
    /\ pc[p] = "locked"
    /\ orig' = [orig EXCEPT ![p] = IF entry[p] = "Existing" /\ CanRead(file)
                                    THEN OrigNew(file) ELSE NoOrig]
    /\ curr' = [curr EXCEPT ![p] = CurrNew(now)]
    /\ pc' = [pc EXCEPT ![p] = "ready"]
    /\ UNCHANGED <<file, holders, now, entry, fed, child, status, progress, overlap,
                   output, eof, code, exit, cmdFile, warned>>

\* Writer::new, from OrigOutput::new on: the trace is read when the entry is
\* Existing; a read error drops the file handle, which releases the lock.
WriterNew(p) ==
    /\ pc[p] = "locked"
    /\ IF entry[p] = "Existing" /\ ~CanRead(file)
       THEN /\ pc' = [pc EXCEPT ![p] = "corrupt"]
            /\ exit' = [exit EXCEPT ![p] = ErrorExit]
            /\ holders' = holders \ {p}
            /\ UNCHANGED <<orig, curr, overlap>>
       ELSE /\ orig' = [orig EXCEPT ![p] = IF entry[p] = "Existing"
                                            THEN OrigNew(file) ELSE NoOrig]
            /\ curr' = [curr EXCEPT ![p] = CurrNew(now)]
            /\ pc' = [pc EXCEPT ![p] = "ready"]
            /\ UNCHANGED <<holders, exit>>
    /\ UNCHANGED <<file, now, entry, fed, child, status, progress, overlap, output, eof, code, cmdFile, warned>>

\* cmd::run from writer.len() to command.spawn: the progress bar gets its
\* length when a trace was loaded, and the child is started.
Spawn(p) ==
    /\ pc[p] = "ready"
    /\ progress' = [progress EXCEPT ![p] =
                      IF orig[p].some
                      THEN [started |-> TRUE, len |-> WriterLen(orig[p]), pos |-> 0]
                      ELSE @]
    /\ child' = [child EXCEPT ![p] = "running"]
    /\ output' = <<>>
    /\ pc' = [pc EXCEPT ![p] = "running"]
    /\ UNCHANGED <<file, holders, now, entry, orig, curr, fed, status, overlap, eof, code, exit, cmdFile, warned>>

\* handle_stdout: Writer::write_line, then set_progress_position(completed()).
HandleStdout(p, line, maxLines) ==
    /\ pc[p] = "running"
    /\ ~eof[p].stdout
    /\ Len(fed[p]) < maxLines
    /\ orig' = [orig EXCEPT ![p] = WriterWriteOrig(@, line)]
    /\ curr' = [curr EXCEPT ![p] = CurrWriteLine(@, line, now)]
    /\ output' = Append(output, line)
    /\ fed' = [fed EXCEPT ![p] = Append(@, line)]
    /\ progress' = [progress EXCEPT ![p].pos = Completed(orig'[p])]
    /\ UNCHANGED <<file, holders, now, pc, entry, child, status, overlap, eof, code, exit, cmdFile, warned>>

\* handle_stderr: the line goes to the output log and to the logger only.
HandleStderr(p, line, maxErr) ==
    /\ pc[p] = "running"
    /\ ~eof[p].stderr
    /\ Len(output) - Len(fed[p]) < maxErr
    /\ output' = Append(output, line)
    /\ UNCHANGED <<file, holders, now, pc, entry, orig, curr, fed, child, status, progress,
                   overlap, eof, code, exit, cmdFile, warned>>

\* The child process ends; its future resolves to the exit status.
ChildExits(p, st) ==
    /\ pc[p] = "running"
    /\ child[p] = "running"
    /\ child' = [child EXCEPT ![p] = "exited"]
    /\ code' = [code EXCEPT ![p] = st]
    /\ UNCHANGED <<file, holders, now, pc, entry, orig, curr, fed, status, progress,
                   overlap, output, eof, exit, cmdFile, warned>>

\* Lines::poll on the child's stdout returns None: for_each(out) completes.
StdoutEof(p) ==
    /\ pc[p] = "running"
    /\ ~eof[p].stdout
    /\ eof' = [eof EXCEPT ![p].stdout = TRUE]
    /\ UNCHANGED <<file, holders, now, pc, entry, orig, curr, fed, child, status, progress,
                   overlap, output, code, exit, cmdFile, warned>>

\* Lines::poll on the child's stderr returns None: for_each(err) completes.
StderrEof(p) ==
    /\ pc[p] = "running"
    /\ ~eof[p].stderr
    /\ eof' = [eof EXCEPT ![p].stderr = TRUE]
    /\ UNCHANGED <<file, holders, now, pc, entry, orig, curr, fed, child, status, progress,
                   overlap, output, code, exit, cmdFile, warned>>

\* A variant of the join that resolves as soon as the child has exited.
JoinOnExit(p) ==
    /\ pc[p] = "running"
    /\ child[p] = "exited"
    /\ status' = [status EXCEPT ![p] = Success(code[p])]
    /\ pc' = [pc EXCEPT ![p] = "exited"]
    /\ UNCHANGED <<file, holders, now, entry, orig, curr, fed, child, progress,
                   overlap, output, eof, code, exit, cmdFile, warned>>

\* child.join3(stdout, stderr) resolves, and wait() returns the status, once
\* the child has exited and both line streams have completed.
Join(p) ==
    /\ pc[p] = "running"
    /\ child[p] = "exited"
    /\ eof[p].stdout
    /\ eof[p].stderr
    /\ status' = [status EXCEPT ![p] = Success(code[p])]
    /\ pc' = [pc EXCEPT ![p] = "exited"]
    /\ UNCHANGED <<file, holders, now, entry, orig, curr, fed, child, progress,
                   overlap, output, eof, code, exit, cmdFile, warned>>

\* command.spawn(..).wait() in one step: the child exits with status st, both
\* streams end and the join resolves.
Wait(p, st) ==
    /\ pc[p] = "running"
    /\ child' = [child EXCEPT ![p] = "exited"]
    /\ code' = [code EXCEPT ![p] = st]
    /\ eof' = [eof EXCEPT ![p] = [stdout |-> TRUE, stderr |-> TRUE]]
    /\ status' = [status EXCEPT ![p] = Success(st)]
    /\ pc' = [pc EXCEPT ![p] = "exited"]
    /\ UNCHANGED <<file, holders, now, entry, orig, curr, fed, progress, overlap,
                   output, exit, cmdFile, warned>>

\* A variant of the error return that keeps the file handle, and the lock.
RunFailsLeak(p) ==
    /\ pc[p] \in {"ready", "running"}
    /\ pc' = [pc EXCEPT ![p] = "failed"]
    /\ exit' = [exit EXCEPT ![p] = ErrorExit]
    /\ UNCHANGED <<file, holders, now, entry, orig, curr, fed, child, status, progress, overlap, output, eof, code, cmdFile, warned>>

\* A variant of the error return that saves the recorded lines first.
RunFailsSaves(p) ==
    /\ pc[p] \in {"ready", "running"}
    /\ file' = ToWriter(CurrFinish(curr[p], now))
    /\ pc' = [pc EXCEPT ![p] = "failed"]
    /\ exit' = [exit EXCEPT ![p] = ErrorExit]
    /\ holders' = holders \ {p}
    /\ UNCHANGED <<now, entry, orig, curr, fed, child, status, progress, overlap,
                   output, eof, code, cmdFile, warned>>

\* An error returned with `?` after the Writer exists (creating the output log,
\* spawning, a line handler, waiting): cmd::run returns, the Writer is dropped.
RunFails(p) ==
    /\ pc[p] \in {"ready", "running"}
    /\ pc' = [pc EXCEPT ![p] = "failed"]
    /\ exit' = [exit EXCEPT ![p] = ErrorExit]
    /\ holders' = holders \ {p}
    /\ UNCHANGED <<file, now, entry, orig, curr, fed, child, status, progress, overlap, output, eof, code, cmdFile, warned>>

\* Writer::finish when nothing is saved.
FinishSkip(p) ==
    /\ pc[p] = "exited"
    /\ ~ShouldSave(status[p], orig[p])
    /\ pc' = [pc EXCEPT ![p] = "finished"]
    /\ UNCHANGED <<file, holders, now, entry, orig, curr, fed, child, status, progress, overlap, output, eof, code, exit, cmdFile, warned>>

\* Writer::finish, seek(0) and set_len(0).
FinishTruncate(p) ==
    /\ pc[p] = "exited"
    /\ ShouldSave(status[p], orig[p])
    /\ file' = EmptyFile
    /\ pc' = [pc EXCEPT ![p] = "truncated"]
    /\ UNCHANGED <<holders, now, entry, orig, curr, fed, child, status, progress, overlap, output, eof, code, exit, cmdFile, warned>>

\* Writer::finish, curr.finish: the new trace is serialized into the file.
FinishWrite(p) ==
    /\ pc[p] = "truncated"
    /\ file' = ToWriter(CurrFinish(curr[p], now))
    /\ pc' = [pc EXCEPT ![p] = "finished"]
    /\ UNCHANGED <<holders, now, entry, orig, curr, fed, child, status, progress, overlap, output, eof, code, exit, cmdFile, warned>>

\* Writer::finish returns an error (seek, set_len or to_writer failed).
FinishFails(p) ==
    /\ \/ pc[p] = "exited" /\ ShouldSave(status[p], orig[p])
       \/ pc[p] = "truncated"
    /\ pc' = [pc EXCEPT ![p] = "failed"]
    /\ exit' = [exit EXCEPT ![p] = ErrorExit]
    /\ holders' = holders \ {p}
    /\ UNCHANGED <<file, now, entry, orig, curr, fed, child, status, progress, overlap, output, eof, code, cmdFile, warned>>

\* Drop for Writer at the end of cmd::run: the lock is released.
Drop(p) ==
    /\ pc[p] = "finished"
    /\ holders' = holders \ {p}
    /\ pc' = [pc EXCEPT ![p] = "done"]
    /\ exit' = [exit EXCEPT ![p] = RunExitCode(code[p])]
    /\ UNCHANGED <<file, now, entry, orig, curr, fed, child, status, progress, overlap, output, eof, code, cmdFile, warned>>

\* The process is killed: the operating system closes its file handles, which
\* releases an advisory lock held through them.
Crash(p) ==
    /\ Alive(p)
    /\ pc' = [pc EXCEPT ![p] = "crashed"]
    /\ holders' = holders \ {p}
    /\ UNCHANGED <<file, now, entry, orig, curr, fed, child, status, progress, overlap, output, eof, code, exit, cmdFile, warned>>

\* Time passes.  The clock is read by CurrOutput::new, CurrOutput::write_line
\* and CurrOutput::finish only, so it is let run between those.
Tick ==
    /\ now < MaxTime
    /\ \E p \in Procs : pc[p] \in {"locked", "running", "exited"}
    /\ now' = now + 1
    /\ UNCHANGED <<file, holders, pc, entry, orig, curr, fed, child, status, progress, overlap, output, eof, code, exit, cmdFile, warned>>

----------------------------------------------------------------------------
(* Initial states *)

\* The traces a run of the recorder can leave behind: distinct contents in
\* order of arrival, arrival times that never decrease, and a total taken
\* after the last line.  Up to a renaming of the contents every such trace
\* holds the first n lines of HistOrder.
HistOrder == <<"a", "b", "c">>

Histories ==
    UNION {
      {[lines |-> [i \in 1..n |-> [data |-> HistOrder[i], dur |-> x[1][i]]],
        total |-> x[2]] :
         x \in {y \in [1..n -> 0..MaxTime] \X (0..MaxTime) :
                  /\ \A i, j \in 1..n : i < j => y[1][i] <= y[1][j]
                  /\ n > 0 => y[1][n] <= y[2]}}
      : n \in {m \in 0..MaxHist : m <= Len(HistOrder)}}

\* Before any run: no lock is held, nothing has been read or written.
InitState ==
    /\ holders = {}
    /\ now = 0
    /\ entry = [p \in Procs |-> "None"]
    /\ orig = [p \in Procs |-> NoOrig]
    /\ curr = [p \in Procs |-> CurrNew(0)]
    /\ fed = [p \in Procs |-> <<>>]
    /\ child = [p \in Procs |-> "none"]
    /\ status = [p \in Procs |-> FALSE]
    /\ progress = [p \in Procs |-> NoProgress]
    /\ overlap = FALSE
    /\ output = <<>>
    /\ eof = [p \in Procs |-> NoEof]
    /\ code = [p \in Procs |-> Killed]
    /\ exit = [p \in Procs |-> 0]
    /\ warned = [p \in Procs |-> FALSE]

\* Runs of cmd::run, which keeps no command side file.
InitRun ==
    /\ pc = [p \in Procs |-> "start"]
    /\ cmdFile = NoCmdFile
    /\ InitState

\* One run against any stored trace, or none.  The run may fail with an error
\* at any step; the process being killed from outside is part of SpecLock.
Init ==
    /\ file \in {EmptyFile, CorruptFile} \cup {ToWriter(h) : h \in Histories}
    /\ InitRun

Next ==
    \/ OpenOrCreate(P1)
    \/ TryLock(P1)
    \/ WriterNew(P1)
    \/ Spawn(P1)
    \/ \E l \in Lines : HandleStdout(P1, l, MaxLive)
    \/ \E st \in {Exited(0), Exited(1)} : Wait(P1, st)
    \/ RunFails(P1)
    \/ FinishSkip(P1)
    \/ FinishTruncate(P1)
    \/ FinishWrite(P1)
    \/ FinishFails(P1)
    \/ Drop(P1)
    \/ Tick

Spec == Init /\ [][Next]_vars

\* Two runs of the same command identity, started at any moments.
InitLock ==
    /\ file \in {EmptyFile, CorruptFile,
                 ToWriter([lines |-> <<[data |-> "a", dur |-> 0]>>, total |-> 0])}
    /\ InitRun

NextLock ==
    \/ \E p \in Procs : OpenOrCreate(p)
    \/ \E p \in Procs : TryLock(p)
    \/ \E p \in Procs : WriterNew(p)
    \/ \E p \in Procs : Spawn(p)
    \/ \E p \in Procs, l \in LockLines : HandleStdout(p, l, MaxLockLive)
    \/ \E p \in Procs, l \in LockLines : HandleStderr(p, l, MaxLockErr)
    \/ \E p \in Procs, st \in {Exited(0), Exited(2), Killed} : ChildExits(p, st)
    \/ \E p \in Procs : StdoutEof(p)
    \/ \E p \in Procs : StderrEof(p)
    \/ \E p \in Procs : Join(p)
    \/ \E p \in Procs : RunFails(p)
    \/ \E p \in Procs : FinishSkip(p)
    \/ \E p \in Procs : FinishTruncate(p)
    \/ \E p \in Procs : FinishWrite(p)
    \/ \E p \in Procs : FinishFails(p)
    \/ \E p \in Procs : Drop(p)
    \/ \E p \in Procs : Crash(p)

SpecLock == InitLock /\ [][NextLock]_vars

\* Two runs of output::Writer for the same command identity, from the command
\* side file on: the file may be absent, hold the current command, hold
\* another command, or hold no TOML.
InitCmd ==
    /\ file \in {EmptyFile, CorruptFile,
                 ToWriter([lines |-> <<[data |-> "a", dur |-> 0]>>, total |-> 0])}
    /\ pc = [p \in Procs |-> "new"]
    /\ cmdFile \in {NoCmdFile, GarbageCmdFile, TomlOf(CurrCmd), TomlOf(OtherCmd)}
    /\ InitState

NextCmd ==
    \/ \E p \in Procs, ok \in BOOLEAN : CheckCmd(p, ok)
    \/ \E p \in Procs, ok \in BOOLEAN : CreateOutput(p, ok)
    \/ \E p \in Procs : OpenOrCreate(p)
    \/ \E p \in Procs : TryLock(p)
    \/ \E p \in Procs : WriterNew(p)
    \/ \E p \in Procs : Spawn(p)
    \/ \E p \in Procs, l \in LockLines : HandleStdout(p, l, MaxLockLive)
    \/ \E p \in Procs, st \in {Exited(0), Exited(1)} : Wait(p, st)
    \/ \E p \in Procs : RunFails(p)
    \/ \E p \in Procs : FinishSkip(p)
    \/ \E p \in Procs : FinishTruncate(p)
    \/ \E p \in Procs : FinishWrite(p)
    \/ \E p \in Procs : FinishFails(p)
    \/ \E p \in Procs : Drop(p)

SpecCmd == InitCmd /\ [][NextCmd]_vars

----------------------------------------------------------------------------
(* Notions the properties are stated in *)

\* The contents of a trace's lines, in order.
DataOf(lines) == [i \in DOMAIN lines |-> lines[i].data]

\* The stored lines' contents in index order, read back from a loaded trace.
StoredLines(o) ==
    [i \in DOMAIN o.data.lines |-> CHOOSE l \in DOMAIN o.map : o.map[l] = i - 1]

\* The trace a loaded OrigOutput was read from.
Stored(o) ==
    [lines |-> [i \in DOMAIN o.data.lines |->
                  [data |-> StoredLines(o)[i], dur |-> o.data.lines[i].dur]],
     total |-> o.data.total]

\* A loaded trace with the match cursor as OrigOutput::new leaves it.
Rewound(o) == [o EXCEPT !.seq = 0, !.elapsed = 0]

RECURSIVE Feed(_, _)
\* The match engine's state after a sequence of live lines.
Feed(o, lines) ==
    IF lines = <<>> THEN o
    ELSE Feed(WriterWriteOrig(o, Head(lines)), Tail(lines))

RECURSIVE Keep(_, _, _)
\* The elements s[i..] for which ok[i] holds, in order.
Keep(s, ok, i) ==
    IF i > Len(s) THEN <<>>
    ELSE (IF ok[i] THEN <<s[i]>> ELSE <<>>) \o Keep(s, ok, i + 1)

\* s without the lines absent from the loaded trace o.
KnownOnly(s, o) == Keep(s, [i \in DOMAIN s |-> s[i] \in DOMAIN o.map], 1)

\* s without the later occurrences of lines of the loaded trace o.
WithoutRepeats(s, o) ==
    Keep(s, [i \in DOMAIN s |->
               s[i] \in DOMAIN o.map => \A j \in 1..(i - 1) : s[j] # s[i]], 1)

\* The first occurrence of every content of s.
FirstOccurrences(s) ==
    Keep(s, [i \in DOMAIN s |-> \A j \in 1..(i - 1) : s[j] # s[i]], 1)

\* The contents that occur in s exactly once.
OccurringOnce(s) ==
    Keep(s, [i \in DOMAIN s |-> \A j \in DOMAIN s : s[j] = s[i] => j = i], 1)

RECURSIVE SumDur(_, _, _)
\* The sum of the dur fields of lines[from..to].
SumDur(lines, from, to) ==
    IF from > to THEN 0 ELSE lines[from].dur + SumDur(lines, from + 1, to)

\* The run of P1 has called Writer::finish and it returned Ok.
Finished == pc[P1] \in {"finished", "done"}

----------------------------------------------------------------------------
(* Properties of the match engine (specification Spec) *)

\* C1 Monotonicity: the value completed() reports after a line is never less
\* than the value it reported before the line.  The code does not satisfy it.
C1_Monotonic ==
    [][Completed(orig[P1])' >= Completed(orig[P1])]_vars

\* C2 Duplicate neutrality: the accumulated elapsed value equals the one the
\* engine reaches on the same stream with the later occurrences of lines of
\* the trace removed.  The code does not satisfy it.
C2_DuplicateNeutral ==
    orig[P1].some =>
        Completed(orig[P1]) =
            Completed(Feed(Rewound(orig[P1]), WithoutRepeats(fed[P1], orig[P1])))

\* C3 Unmatched-line tolerance: the cursor and the accumulated elapsed value
\* are those the engine reaches on the same stream with the lines absent from
\* the trace removed.
C3_UnmatchedTolerance ==
    orig[P1].some =>
        /\ orig[P1].seq = Feed(Rewound(orig[P1]), KnownOnly(fed[P1], orig[P1])).seq
        /\ Completed(orig[P1]) =
              Completed(Feed(Rewound(orig[P1]), KnownOnly(fed[P1], orig[P1])))

C3_Witness ==
    /\ orig[P1].some
    /\ Len(fed[P1]) = 3
    /\ fed[P1][1] \in DOMAIN orig[P1].map
    /\ fed[P1][2] \notin DOMAIN orig[P1].map
    /\ fed[P1][3] \in DOMAIN orig[P1].map
    /\ Completed(orig[P1]) > 0
    /\ progress[P1].pos = Completed(orig[P1])

\* The live stream so far is the first k lines of the stored trace.
Replaying(k) ==
    /\ orig[P1].some
    /\ k = Len(fed[P1])
    /\ k <= Len(orig[P1].data.lines)
    /\ \A i \in 1..k : fed[P1][i] = StoredLines(orig[P1])[i]

\* C4 Idempotent replay, amended: while the live stream replays the stored
\* trace, the value reported after the k-th line is the time recorded for the
\* k-th stored line; after the last line it is the time recorded for the last
\* line, which does not exceed the stored total.
C4_Replay ==
    \A k \in 1..MaxLive :
        Replaying(k) =>
            /\ Completed(orig[P1]) = orig[P1].data.lines[k].dur
            /\ progress[P1].pos = orig[P1].data.lines[k].dur
            /\ Completed(orig[P1]) <= orig[P1].data.total

C4_Witness ==
    /\ Replaying(3)
    /\ Len(orig[P1].data.lines) = 3
    /\ Completed(orig[P1]) = 1
    /\ orig[P1].data.total = 2

\* C4 as stated: after the last line of a full replay the reported value
\* equals the stored total.
C4_ReplayReachesTotal ==
    \A k \in 1..MaxLive :
        (Replaying(k) /\ k = Len(orig[P1].data.lines)) =>
            Completed(orig[P1]) = orig[P1].data.total

\* The forward-match rule on one step of the engine from o to o2, for a line
\* found at index s, with the cursor read as the index `last` of the last
\* consumed line: the cursor becomes s, and the dur fields of the lines
\* last + 1 .. s are added.
ForwardRule(o, o2, s, last, cursorAfter) ==
    /\ cursorAfter = s
    /\ o2.elapsed = o.elapsed + SumDur(o.data.lines, last + 2, s + 1)

\* C5 Forward-match rule: a live line found at index s ahead of or at the
\* cursor moves the cursor to s and adds the dur fields of the lines from the
\* previous cursor + 1 through s.  The field seq is read either as the cursor
\* itself or as the number of lines consumed (the cursor + 1); the code
\* satisfies the rule under neither reading.
C5_ForwardMatch ==
    [][\A l \in Lines :
          (/\ orig[P1].some
           /\ fed'[P1] = Append(fed[P1], l)
           /\ l \in DOMAIN orig[P1].map
           /\ orig[P1].map[l] >= orig[P1].seq)
          => LET s == orig[P1].map[l]
                 o == orig[P1]
                 o2 == orig'[P1]
             IN  \/ ForwardRule(o, o2, s, o.seq, o2.seq)
                 \/ /\ o2.seq = s + 1
                    /\ o2.elapsed = o.elapsed + SumDur(o.data.lines, o.seq + 1, s + 1)]_vars

C10_SavedContents ==
    (Finished /\ (status[P1] \/ ~orig[P1].some)) =>
        /\ CanRead(file)
        /\ DataOf(FromReader(file).lines) = OccurringOnce(fed[P1])

C10_Witness ==
    /\ Finished /\ status[P1]
    /\ Len(fed[P1]) = 3
    /\ Len(OccurringOnce(fed[P1])) = 1
    /\ Len(FromReader(file).lines) = 1

\* C10 as stated: the saved trace holds every distinct content of the run
\* once, in order of first occurrence.
C10_EveryDistinctContent ==
    (Finished /\ (status[P1] \/ ~orig[P1].some)) =>
        /\ CanRead(file)
        /\ DataOf(FromReader(file).lines) = FirstOccurrences(fed[P1])

----------------------------------------------------------------------------
(* Properties of the trace lock (specification SpecLock) *)

\* C7 Lock exclusivity, amended: at most one process holds the lock, and a
\* process is between reading the trace and the end of its run only while it
\* holds the lock, so reads of the contents and writes are never concurrent.
C7_LockExclusive ==
    /\ Cardinality(holders) <= 1
    /\ \A p \in Procs : pc[p] \in Critical => p \in holders
    /\ \A p \in Procs : pc[p] = "busy" => p \notin holders

C7_Witness ==
    \E p, q \in Procs :
        /\ p # q
        /\ holders = {p}
        /\ pc[p] = "truncated"
        /\ pc[q] = "busy"

\* C7 as stated: of two runs whose lifetimes overlap only one gets past the
\* lock.
C7_OverlapOnlyOneObtains ==
    overlap => Cardinality({p \in Procs : pc[p] \in Critical \cup {"done"}}) <= 1

\* C8 Non-blocking failure before spawn: a run that tries the lock while it is
\* held goes to the ResourceBusy error in that step, stays there, and has no
\* child.
C8_BusyBeforeSpawn ==
    [][\A p \in Procs :
          /\ (pc[p] = "opened" /\ holders # {} /\ pc'[p] \notin {"opened", "crashed"})
                => (pc'[p] = "busy" /\ child'[p] = "none" /\ holders' = holders)
          /\ pc[p] = "busy" => (pc'[p] = "busy" /\ child'[p] = "none")]_vars

C8_Witness ==
    \E p, q \in Procs :
        /\ pc[p] = "busy"
        /\ child[p] = "none"
        /\ child[q] = "running"
        /\ q \in holders

\* C9 Guaranteed lock release: a run that has ended, in whatever way, does not
\* hold the lock; only a run in progress holds it.
C9_LockReleased ==
    \A p \in holders : pc[p] \in Critical

C9_Witness ==
    \E p, q \in Procs :
        /\ pc[p] \in {"done", "failed"}
        /\ entry[q] = "Existing"
        /\ holders = {q}
        /\ file = ToWriter(CurrFinish(curr[p], now))
        /\ Len(fed[p]) > 0

----------------------------------------------------------------------------
(* Properties of the recorder (specification Spec) *)

\* The trace file holds the trace this run of P1 saved.
Saved == Finished /\ (status[P1] \/ ~orig[P1].some)

\* C11 Trace timing, amended: an entry's duration is the time from the start
\* of the run to the first arrival of its line, so durations never decrease
\* along the trace, and the total of a saved trace is at least every entry's
\* duration.
C11_ArrivalTimes ==
    [][/\ \A l \in Lines :
            (fed'[P1] = Append(fed[P1], l) /\ l \notin DOMAIN curr[P1].map) =>
                curr'[P1].data.lines =
                    Append(curr[P1].data.lines,
                           [data |-> "", dur |-> now - curr[P1].start])
       /\ \A i, j \in DOMAIN curr'[P1].data.lines :
            i < j => curr'[P1].data.lines[i].dur <= curr'[P1].data.lines[j].dur
       /\ Saved' =>
            /\ CanRead(file')
            /\ \A i \in DOMAIN file'.data.lines :
                 file'.data.lines[i].dur <= file'.data.total]_vars

C11_Witness ==
    /\ Saved
    /\ CanRead(file)
    /\ Len(file.data.lines) = 2
    /\ file.data.lines[1].dur = 1
    /\ file.data.lines[2].dur = 2
    /\ file.data.total = 2

\* C11 as stated: the total of a saved trace is at least the sum of its
\* entries' durations.
C11_TotalCoversSum ==
    Saved => /\ CanRead(file)
             /\ file.data.total >= SumDur(file.data.lines, 1, Len(file.data.lines))

\* The distinct contents among the lines s.
Distinct(s) == {s[i] : i \in DOMAIN s}

\* C20 Recorder slot allocation: a content not seen before in the run gets the
\* index equal to the number of distinct contents recorded so far, and its
\* arrival time is stored; a content seen before gets no new entry, and the
\* index and the time of every existing entry stay as they were.  The indices
\* in use are 0 .. n-1 for n distinct contents.
C20_SlotAllocation ==
    [][\A l \in Lines :
         fed'[P1] = Append(fed[P1], l) =>
            LET c == curr[P1]
                d == curr'[P1]
                n == Cardinality(Distinct(fed[P1]))
            IN  /\ \A k \in DOMAIN c.map :
                     k \in DOMAIN d.map /\ d.map[k].seq = c.map[k].seq
                /\ \A i \in DOMAIN c.data.lines :
                     i \in DOMAIN d.data.lines /\ d.data.lines[i] = c.data.lines[i]
                /\ IF l \in Distinct(fed[P1])
                   THEN /\ DOMAIN d.map = DOMAIN c.map
                        /\ Len(d.data.lines) = Len(c.data.lines)
                   ELSE /\ DOMAIN d.map = DOMAIN c.map \cup {l}
                        /\ d.map[l].seq = n
                        /\ Len(d.data.lines) = n + 1
                        /\ d.data.lines[n + 1].dur = now - c.start
                /\ {d.map[k].seq : k \in DOMAIN d.map} =
                       0 .. (Cardinality(Distinct(fed'[P1])) - 1)]_vars

C20_Witness ==
    /\ fed[P1] = <<"a", "b", "a">>
    /\ curr[P1].map["a"].seq = 0
    /\ curr[P1].map["b"].seq = 1
    /\ Len(curr[P1].data.lines) = 2
    /\ curr[P1].data.lines[1].dur < curr[P1].data.lines[2].dur
    /\ curr[P1].data.lines[2].dur < now - curr[P1].start

\* The Writer of P1 exists and holds no stored trace.
NotLoaded ==
    /\ pc[P1] \in {"ready", "running", "exited", "truncated", "finished", "done"}
    /\ ~orig[P1].some

\* C15 Indeterminate mode: in a run that loaded no stored trace nothing is
\* matched (the engine's state stays as constructed), the progress bar never
\* gets a length, the value reported by completed() stays 0, and once finish
\* has returned the file holds the trace of this run, whatever the child's
\* exit status.
C15_Indeterminate ==
    NotLoaded =>
        /\ orig[P1] = NoOrig
        /\ ~progress[P1].started
        /\ progress[P1].len = 0
        /\ progress[P1].pos = 0
        /\ Finished =>
              /\ CanRead(file)
              /\ DataOf(FromReader(file).lines) = OccurringOnce(fed[P1])
              /\ FromReader(file).total = now - curr[P1].start

C15_Witness ==
    /\ NotLoaded
    /\ Finished
    /\ ~status[P1]
    /\ fed[P1] = <<"a", "b", "c">>
    /\ Len(FromReader(file).lines) = 3
    /\ FromReader(file).total > 0

----------------------------------------------------------------------------
(* Further properties of the match engine (specification Spec) *)

\* s without its i-th element.
Without(s, i) == SubSeq(s, 1, i - 1) \o SubSeq(s, i + 1, Len(s))

\* The i-th live line of P1 was found in the stored trace at an index behind
\* the cursor: below seq as write_line compares it, and below the index of a
\* stored line matched earlier in the run.
Behind(i) ==
    LET s == fed[P1]
        o == Feed(Rewound(orig[P1]), SubSeq(s, 1, i - 1))
    IN  /\ s[i] \in DOMAIN o.map
        /\ o.map[s[i]] < o.seq
        /\ \E j \in 1..(i - 1) : s[j] \in DOMAIN o.map /\ o.map[s[i]] < o.map[s[j]]

\* C18 Backward match has no effect on progress: the value reported after a
\* stream that holds a line matched behind the cursor equals the value
\* reported after the same stream with that line removed.
C18_BackwardNoEffect ==
    orig[P1].some =>
        \A i \in DOMAIN fed[P1] :
            Behind(i) =>
                Completed(orig[P1]) =
                    Completed(Feed(Rewound(orig[P1]), Without(fed[P1], i)))

----------------------------------------------------------------------------
(* Properties of loading and replacing the trace (specification SpecLock) *)

\* C13 Corrupt trace is a hard error: a run that finds a trace file of
\* non-zero length whose content cannot be deserialized ends in an error of
\* its own kind, with the wrapper's error exit code; it starts no child, is
\* fed no line, gives up the lock, and the file is changed only by runs that
\* got past loading.
C13_CorruptIsError ==
    [][\A p \in Procs :
         /\ (pc[p] = "locked" /\ entry[p] = "Existing" /\ ~CanRead(file)
                /\ pc'[p] # pc[p]) =>
               /\ pc'[p] \in {"corrupt", "crashed"}
               /\ file' = file
         /\ pc'[p] = "corrupt" =>
               /\ pc[p] \in {"locked", "corrupt"}
               /\ child'[p] = "none"
               /\ fed'[p] = <<>>
               /\ exit'[p] = ErrorExit
               /\ p \notin holders'
         /\ pc[p] = "corrupt" => pc'[p] = "corrupt"
         /\ file' # file =>
               \E q \in Procs : pc[q] \in {"exited", "truncated"} /\ pc'[q] # "corrupt"]_vars

C13_Witness ==
    /\ pc[P1] = "corrupt"
    /\ entry[P1] = "Existing"
    /\ file = CorruptFile
    /\ child[P1] = "none"
    /\ holders = {}

\* C16 Crash-safe replace: once a run has loaded a complete trace from the
\* file, whenever the lock is free (so that another process can take it and
\* read) the file holds a complete trace, the previous one or a new one.
C16_CrashSafeReplace ==
    (holders = {} /\ \E p \in Procs : orig[p].some) => CanRead(file)

----------------------------------------------------------------------------
(* Properties of the run around the child (specification SpecLock) *)

\* C12 Both streams feed the core: every line the wrapper has read from the
\* child, on stdout or on stderr (each is written to the output log when it is
\* handled), has been passed to Writer::write_line, in the order of handling,
\* and so has a slot in the recorder.
C12_BothStreamsFeed ==
    \A p \in Procs :
        pc[p] \in {"running", "exited", "truncated", "finished"} =>
            /\ fed[p] = output
            /\ \A i \in DOMAIN output : output[i] \in DOMAIN curr[p].map

\* C17 Exit code mirroring, amended: a run that returns from cmd::run without
\* an error of its own exits with the child's exit code, zero or not, and with
\* 1 when the child was ended by a signal and has no code; a run that fails
\* with an error, before or after the child has exited, exits with 17.
C17_ExitCode ==
    \A p \in Procs :
        /\ pc[p] = "done" =>
              /\ child[p] = "exited"
              /\ code[p].some => exit[p] = code[p].value
              /\ ~code[p].some => exit[p] = DefaultExit
        /\ pc[p] \in {"busy", "corrupt", "failed"} => exit[p] = ErrorExit

C17_Witness ==
    /\ pc[P1] = "done"
    /\ code[P1] = Exited(2)
    /\ exit[P1] = 2
    /\ pc["p2"] = "failed"
    /\ child["p2"] = "exited"
    /\ code["p2"] = Exited(0)
    /\ exit["p2"] = ErrorExit

\* C17 as stated: whenever the child exited with a code, the wrapper exits
\* with that code.
C17_AlwaysMirrors ==
    \A p \in Procs :
        (child[p] = "exited" /\ code[p].some /\ pc[p] \in {"done", "failed"}) =>
            exit[p] = code[p].value

\* The run of p is past command.spawn(..).wait(): at finish_progress,
\* in Writer::finish, or returned from it.
PastWait(p) == pc[p] \in {"exited", "truncated", "finished", "done"}

\* C19 Completion ordering: a run is at its end-of-run steps only when the
\* child has exited and both its stdout and its stderr have reached
\* end-of-stream; from then on no line is matched or recorded, and the trace
\* file is written by such a run only.
C19_CompletionOrder ==
    [][\A p \in Procs :
         /\ PastWait(p)' =>
               /\ child'[p] = "exited"
               /\ eof'[p].stdout
               /\ eof'[p].stderr
         /\ PastWait(p) =>
               /\ fed'[p] = fed[p]
               /\ curr'[p] = curr[p]
               /\ orig'[p] = orig[p]
         /\ (file' # file /\ pc'[p] # pc[p]) => PastWait(p)]_vars

C19_Witness ==
    /\ pc[P1] = "finished"
    /\ status[P1]
    /\ fed[P1] = <<"a">>
    /\ output = <<"a", "a">>
    /\ CanRead(file)
    /\ Len(FromReader(file).lines) = 1

----------------------------------------------------------------------------
(* Properties of the command side file (specification SpecCmd) *)

\* The command side file exists and does not hold the current command.
Collision(f) == f.kind # "empty" /\ (f.kind = "toml" => f.cmd # CurrCmd)

\* C14 Identity collision is non-fatal: when the command side file exists and
\* differs from the current command, or cannot be read or parsed, the check
\* ends with a warning and the run goes on to create the output log and to
\* open the trace; an existing side file is never rewritten, by the check or
\* later, by this run or another.
C14_CollisionNonFatal ==
    [][/\ \A p \in Procs :
            /\ (pc[p] = "new" /\ pc'[p] # "new") =>
                  /\ pc'[p] = "checked"
                  /\ Collision(cmdFile) => warned'[p]
            /\ pc[p] # "new" => warned'[p] = warned[p]
       /\ cmdFile.kind # "empty" => cmdFile' = cmdFile]_vars

C14_Witness ==
    /\ warned[P1]
    /\ cmdFile = TomlOf(OtherCmd)
    /\ pc[P1] = "done"
    /\ child[P1] = "exited"
    /\ status[P1]
    /\ fed[P1] = <<"a">>
    /\ CanRead(file)

----------------------------------------------------------------------------
(* Properties of runs that overlap (specification SpecLock) *)

\* C21 No stale existence check across processes: a run that holds the lock
\* and has not begun to replace the file, while the file holds a complete
\* trace with at least one line, has loaded that trace as its stored trace.
C21_LoadsWhatIsThere ==
    \A p \in Procs :
        (/\ pc[p] \in {"ready", "running", "exited"}
         /\ CanRead(file)
         /\ Len(FromReader(file).lines) > 0) =>
            /\ orig[p].some
            /\ Stored(orig[p]) = FromReader(file)

\* C22 Failure during the run leaves the trace untouched: when a run that
\* has its Writer fails before wait() has returned (creating the output log,
\* spawning, a line handler or the wait returned an error), the step that
\* ends it leaves the trace file as it is and releases the lock, the run
\* exits with the error code, and it takes no further step: it neither
\* starts again nor reaches finish.
C22_FailureLeavesTrace ==
    [][\A p \in Procs :
         /\ (pc[p] \in {"ready", "running"} /\ pc'[p] = "failed") =>
               /\ file' = file
               /\ p \notin holders'
               /\ exit'[p] = ErrorExit
               /\ fed'[p] = fed[p]
         /\ pc[p] = "failed" =>
               /\ pc'[p] = "failed"
               /\ child'[p] = child[p]
               /\ p \notin holders']_vars

C22_Witness ==
    /\ pc[P1] = "failed"
    /\ child[P1] = "running"
    /\ orig[P1].some
    /\ fed[P1] = <<"a">>
    /\ file = ToWriter(Stored(orig[P1]))
    /\ holders = {}

----------------------------------------------------------------------------
(* Properties of runs of output::Writer that overlap (specification SpecCmd) *)

\* C23 A losing run has no side effects: while a run holds the lock and its
\* child's lines are being written to the output log, a run that has failed
\* on the held lock has left the log alone, so the log holds exactly the lines
\* the lock-holding run has handled.
C23_LoserLeavesLog ==
    \A p, q \in Procs :
        (/\ pc[p] = "busy"
         /\ q \in holders
         /\ pc[q] \in {"running", "exited", "truncated", "finished"}) =>
            output = fed[q]

====
